---- MODULE Spec2Model ----
(***************************************************************************)
(* Model of iDownloader (src/src/main.rs): a HEAD probe, a chunk plan,     *)
(* one tokio task per chunk with a bounded retry loop around               *)
(* download_chunk, a join_all barrier, ordered reassembly of the staged    *)
(* chunk files into the output file, and removal of the staging directory. *)
(***************************************************************************)
EXTENDS Integers, Sequences, FiniteSets, TLC

\* ---- bounds of the model ----
MaxSize == 3
MaxChunks == 3
MaxRetries == 2

VARIABLES
  pc,            \* position of main
  max_chunks,    \* args.max_chunks
  max_retries,   \* args.max_retries
  accept_ranges, \* value of the accept-ranges header of the HEAD response
  cl_header,     \* value of the content-length header of the HEAD response
  content_length,
  chunk_count,
  chunk_size,
  loop_i,        \* loop variable i of the spawning loop / of the reassembly loop
  tasks,         \* spawned tasks: index -> [pc, retries, start, end, bytes]
  temp_dir,      \* "none", "exists" or "removed"
  files,         \* staging files: path -> bytes
  temp_files,    \* the shared Vec<Option<PathBuf>>: index -> None or a path
  lock,          \* holder of the Mutex around temp_files
  pb,            \* position of the progress bar
  output,        \* the output file: NoFile or its bytes
  log,           \* the set of messages printed so far
  pending,       \* staging writes handed to the blocking pool: path -> bytes
  written,       \* history: the chunk indices appended to the output, in order
  hist,          \* history per task: download_chunk calls, Ok results, slot writes
  server         \* how the server answers a GET with a Range header

vars == <<pc, max_chunks, max_retries, accept_ranges, cl_header, content_length,
          chunk_count, chunk_size, loop_i, tasks, temp_dir, files, temp_files,
          lock, pb, output, log, pending, written, hist, server>>

\* Option::None in a slot: no path
None == <<>>
\* no file at a path (bytes are never negative)
NoFile == <<-1>>
\* holders of the Mutex
Free == [by |-> "none", id |-> 0]
Main == [by |-> "main", id |-> 0]
Task(t) == [by |-> "task", id |-> t]

\* ---- pure helpers ----

Min(a, b) == IF a < b THEN a ELSE b

\* the resource on the server: the byte at offset k is k
Original(n) == [k \in 1..n |-> k - 1]

\* decimal digits of a number, as format!("{}", i) prints them
RECURSIVE Dec(_)
Dec(n) == IF n < 10 THEN <<n>> ELSE Dec(n \div 10) \o <<n % 10>>

\* format!("part") without the index
TempPathNoIndex(i) == <<"part">>

\* temp_dir.path().join(format!("part{}", i))
TempPath(i) == <<"part">> \o Dec(i)

\* ChunkStart with chunks that overlap by a byte
ChunkStartOverlap(i, size) == IF i = 0 THEN 0 ELSE i * size - 1

\* start of chunk i
ChunkStart(i, size) == i * size

\* ChunkEnd without the case of the last chunk
ChunkEndNoLast(i, count, size, length) == (i + 1) * size - 1

\* end of chunk i
ChunkEnd(i, count, size, length) ==
  IF i = count - 1 THEN length - 1 ELSE (i + 1) * size - 1

\* ChunkCount without the min
ChunkCountNoMin(maxc, length) == maxc

\* args.max_chunks.min(content_length)
ChunkCount(maxc, length) == Min(maxc, length)

\* the body a server sends for GET with Range: bytes=s-e
\*   "partial": 206 with exactly the requested range
\*   "full":    the range header is not honoured, the whole resource is sent
\* download_chunk does not look at the status of the response.
Body(kind, s, e, length) ==
  IF kind = "partial" THEN SubSeq(Original(length), s + 1, e + 1)
  ELSE Original(length)

ResponseKinds == {"partial", "full"}

\* a function extended or overwritten at one point
Put(f, k, v) == [x \in DOMAIN f \cup {k} |-> IF x = k THEN v ELSE f[x]]

\* the content-length header: a number, absent, or not a number
HeaderLengths ==
  [kind : {"number"}, value : 0..MaxSize] \cup [kind : {"absent", "invalid"}, value : {0}]
AcceptValues == {"bytes", "none", "absent"}

Init ==
  /\ pc = "head"
  /\ max_chunks \in 0..MaxChunks
  /\ max_retries \in 0..MaxRetries
  /\ accept_ranges = "absent"
  /\ cl_header = [kind |-> "absent", value |-> 0]
  /\ content_length = 0
  /\ chunk_count = 0
  /\ chunk_size = 0
  /\ loop_i = 0
  /\ tasks = <<>>
  /\ temp_dir = "none"
  /\ files = <<>>
  /\ temp_files = <<>>
  /\ lock = Free
  /\ pb = 0
  /\ output = NoFile
  /\ log = {}
  /\ pending = <<>>
  /\ written = <<>>
  /\ hist = <<>>
  /\ server = "partial"

\* ---- main ----

\* a panic that does not run TempDir's Drop: the staging directory is left
UnwindNoDrop(msg) ==
  /\ pc' = "panicked"
  /\ log' = log \cup {<<"panic", msg>>}
  /\ lock' = IF lock = Main THEN Free ELSE lock
  /\ UNCHANGED <<temp_dir, files, pending>>

\* a panic of main unwinds: the locals are dropped, the MutexGuard is released
\* and TempDir's Drop removes the staging directory with what it holds
Unwind(msg) ==
  /\ pc' = "panicked"
  /\ log' = log \cup {<<"panic", msg>>}
  /\ lock' = IF lock = Main THEN Free ELSE lock
  /\ temp_dir' = IF temp_dir = "exists" THEN "removed" ELSE temp_dir
  /\ files' = IF temp_dir = "exists" THEN <<>> ELSE files
  /\ pending' = IF temp_dir = "exists" THEN <<>> ELSE pending

\* client.head(url).send().await.expect(..): the request cannot be completed
HeadUnreachable ==
  /\ pc = "head"
  /\ Unwind("Send head request failed")
  /\ UNCHANGED <<max_chunks, max_retries, accept_ranges, cl_header, content_length,
                 chunk_count, chunk_size, loop_i, tasks, temp_files, pb, output, written, hist, server>>

\* the HEAD response has a status that is not a success: main returns
HeadStatusFailed ==
  /\ pc = "head"
  /\ pc' = "returned"
  /\ log' = log \cup {<<"Failed to download: Server returned status code">>}
  /\ UNCHANGED <<max_chunks, max_retries, accept_ranges, cl_header, content_length,
                 chunk_count, chunk_size, loop_i, tasks, temp_dir, files, temp_files,
                 lock, pb, output,
                 pending, written, hist, server>>

\* the HEAD response is a success and carries these headers
HeadOk ==
  /\ pc = "head"
  /\ \E a \in AcceptValues, l \in HeaderLengths, k \in ResponseKinds :
       /\ accept_ranges' = a
       /\ cl_header' = l
       /\ server' = k
  /\ pc' = "ranges"
  /\ UNCHANGED <<max_chunks, max_retries, content_length, chunk_count, chunk_size,
                 loop_i, tasks, temp_dir, files, temp_files, lock, pb, output, log,
                 pending, written, hist>>

\* any header value but "bytes" passes
SupportsRangesAnyValue(a) == a # "absent"

\* accept_ranges == Some("bytes")
SupportsRanges(a) == a = "bytes"

\* accept_ranges == Some("bytes") is false: the else branch
RangesUnsupported ==
  /\ pc = "ranges"
  /\ ~SupportsRanges(accept_ranges)
  /\ pc' = "returned"
  /\ log' = log \cup {<<"Server does not support range requests">>}
  /\ UNCHANGED <<max_chunks, max_retries, accept_ranges, cl_header, content_length,
                 chunk_count, chunk_size, loop_i, tasks, temp_dir, files, temp_files,
                 lock, pb, output,
                 pending, written, hist, server>>

\* the content-length header does not parse as u64
LengthInvalid ==
  /\ pc = "ranges"
  /\ SupportsRanges(accept_ranges)
  /\ cl_header.kind = "invalid"
  /\ Unwind("Invalid content length")
  /\ UNCHANGED <<max_chunks, max_retries, accept_ranges, cl_header, content_length,
                 chunk_count, chunk_size, loop_i, tasks, temp_files, pb, output, written, hist, server>>

\* content_length (0 when the header is absent) and chunk_count
ReadLength ==
  /\ pc = "ranges"
  /\ SupportsRanges(accept_ranges)
  /\ cl_header.kind # "invalid"
  /\ content_length' = IF cl_header.kind = "absent" THEN 0 ELSE cl_header.value
  /\ chunk_count' = ChunkCount(max_chunks, content_length')
  /\ log' = log \cup {<<"Will split into chunks", chunk_count'>>}
  /\ pc' = "divide"
  /\ UNCHANGED <<max_chunks, max_retries, accept_ranges, cl_header, chunk_size,
                 loop_i, tasks, temp_dir, files, temp_files, lock, pb, output,
                 pending, written, hist, server>>

\* content_length / chunk_count with chunk_count = 0 panics
DivideByZero ==
  /\ pc = "divide"
  /\ chunk_count = 0
  /\ Unwind("attempt to divide by zero")
  /\ UNCHANGED <<max_chunks, max_retries, accept_ranges, cl_header, content_length,
                 chunk_count, chunk_size, loop_i, tasks, temp_files, pb, output, written, hist, server>>

\* let chunk_size = content_length / chunk_count
Divide ==
  /\ pc = "divide"
  /\ chunk_count # 0
  /\ chunk_size' = content_length \div chunk_count
  /\ pc' = "tempdir"
  /\ UNCHANGED <<max_chunks, max_retries, accept_ranges, cl_header, content_length,
                 chunk_count, loop_i, tasks, temp_dir, files, temp_files, lock, pb,
                 output, log, pending, written, hist, server>>

\* dirs::download_dir() or tempdir() fails
SetupFailed ==
  /\ pc = "tempdir"
  /\ \E msg \in {"Failed to get download directory", "Create temp dir failed"} :
       Unwind(msg)
  /\ UNCHANGED <<max_chunks, max_retries, accept_ranges, cl_header, content_length,
                 chunk_count, chunk_size, loop_i, tasks, temp_files, pb, output, written, hist, server>>

\* tempdir(), vec![None; chunk_count], ProgressBar::new(content_length)
Setup ==
  /\ pc = "tempdir"
  /\ temp_dir' = "exists"
  /\ temp_files' = [i \in 0..(chunk_count - 1) |-> None]
  /\ pb' = 0
  /\ loop_i' = 0
  /\ pc' = "spawn"
  /\ UNCHANGED <<max_chunks, max_retries, accept_ranges, cl_header, content_length,
                 chunk_count, chunk_size, tasks, files, lock, output, log, pending,
                 written, hist, server>>

\* ---- the spawning loop ----

\* what the closure of chunk i captures, and its local retries
NewTask(i) ==
  [pc |-> "start", retries |-> 0, index |-> i,
   start |-> ChunkStart(i, chunk_size),
   end |-> ChunkEnd(i, chunk_count, chunk_size, content_length),
   temp_path |-> TempPath(i), bytes |-> <<>>]

\* one iteration of for i in 0..chunk_count: tokio::spawn of the task of chunk
\* i; after the last one main reaches join_all(tasks).await
Spawn ==
  /\ pc = "spawn"
  /\ loop_i < chunk_count
  /\ tasks' = Put(tasks, loop_i, NewTask(loop_i))
  /\ hist' = Put(hist, loop_i, [oks |-> 0, late |-> 0, incs |-> 0, lastTry |-> FALSE,
                                writers |-> <<>>])
  /\ loop_i' = loop_i + 1
  /\ pc' = IF loop_i' < chunk_count THEN "spawn" ELSE "join"
  /\ UNCHANGED <<max_chunks, max_retries, accept_ranges, cl_header, content_length,
                 chunk_count, chunk_size, temp_dir, files, temp_files, lock, pb,
                 output, log, pending, written, server>>

\* ---- the task of chunk t ----

Spawned == DOMAIN tasks

\* LoopGuard with one attempt too many
LoopGuardOffByOne(retries) == retries <= max_retries

\* while retries < max_retries
LoopGuard(retries) == retries < max_retries

\* LoopTest of a task that takes its siblings down when it gives up
LoopTestAbortAll(t, retries) ==
  /\ tasks' = [u \in DOMAIN tasks |->
                 IF u = t
                 THEN [tasks[u] EXCEPT !.retries = retries, !.bytes = <<>>,
                         !.pc = IF LoopGuard(retries) THEN "send" ELSE "done"]
                 ELSE IF LoopGuard(retries) THEN tasks[u]
                 ELSE [tasks[u] EXCEPT !.pc = "done"]]
  /\ hist' = IF LoopGuard(retries) /\ hist[t].oks > 0
             THEN [hist EXCEPT ![t].late = @ + 1]
             ELSE hist

\* the test of the while loop with this value of retries: download_chunk is
\* called and its GET is sent, or the loop and the task end
LoopTest(t, retries) ==
  /\ tasks' = [tasks EXCEPT ![t].retries = retries, ![t].bytes = <<>>,
                 ![t].pc = IF LoopGuard(retries) THEN "send" ELSE "done"]
  /\ hist' = IF LoopGuard(retries) /\ hist[t].oks > 0
             THEN [hist EXCEPT ![t].late = @ + 1]
             ELSE hist

\* the task starts: the first test of the loop
Start(t) ==
  /\ t \in Spawned
  /\ tasks[t].pc = "start"
  /\ LoopTest(t, 0)
  /\ UNCHANGED <<pc, max_chunks, max_retries, accept_ranges, cl_header, content_length,
                 chunk_count, chunk_size, loop_i, temp_dir, files, temp_files, lock,
                 pb, output, log, pending, written, server>>

\* the Err arm: retries += 1, the message of the last retry (the message of
\* each retry is left out of the log), and the next test of the loop
ErrArm(t) ==
  /\ LoopTest(t, tasks[t].retries + 1)
  /\ log' = log \cup (IF tasks[t].retries + 1 = max_retries
                      THEN {<<"Failed to download chunk", t>>} ELSE {})

\* send().await?, response.bytes().await? or File::create(temp_path).await?
\* fails: download_chunk returns Err and the staging file is as it was
FailBeforeWrite(t) ==
  /\ t \in Spawned
  /\ tasks[t].pc = "send"
  /\ ErrArm(t)
  /\ UNCHANGED <<pc, max_chunks, max_retries, accept_ranges, cl_header, content_length,
                 chunk_count, chunk_size, loop_i, temp_dir, files, temp_files, lock,
                 pb, output, pending, written, server>>

\* the bytes of the response to the request of task t
Received(t) == Body(server, tasks[t].start, tasks[t].end, content_length)

\* how many bytes a failing write_all of n bytes leaves in the file: a proper
\* prefix, here all but the last byte
PartialCuts(n) == {n - 1} \cap (0..(n - 1))

\* the body is read in full, File::create leaves the file empty, and write_all
\* fails after a proper prefix of the bytes reached the file
WriteErr(t) ==
  /\ t \in Spawned
  /\ tasks[t].pc = "send"
  /\ \E k \in PartialCuts(Len(Received(t))) :
       files' = Put(files, tasks[t].temp_path, SubSeq(Received(t), 1, k))
  /\ ErrArm(t)
  /\ UNCHANGED <<pc, max_chunks, max_retries, accept_ranges, cl_header, content_length,
                 chunk_count, chunk_size, loop_i, temp_dir, temp_files, lock,
                 pb, output, pending, written, server>>

\* pb.inc(n)
PbInc(pos, n) == pos + n

\* download_chunk returns Ok(bytes): the body is read in full, File::create
\* leaves the file empty and write_all returns Ok. tokio's File hands the
\* buffer to a blocking thread and write returns without waiting for it; the
\* file is dropped without flush, so the bytes reach the staging file later
\* (BackgroundWrite). The Ok arm begins: pb.inc(bytes.len() as u64). The arm
\* ends in break, so retries is not read again and is forgotten here.
DownloadOk(t) ==
  /\ t \in Spawned
  /\ tasks[t].pc = "send"
  /\ files' = Put(files, tasks[t].temp_path, <<>>)
  /\ pending' = Put(pending, tasks[t].temp_path, Received(t))
  /\ pb' = PbInc(pb, Len(Received(t)))
  /\ tasks' = [tasks EXCEPT ![t].pc = "lock", ![t].bytes = Received(t), ![t].retries = 0]
  /\ hist' = [hist EXCEPT ![t].oks = @ + 1, ![t].incs = @ + 1,
                          ![t].lastTry = (tasks[t].retries + 1 = max_retries)]
  /\ UNCHANGED <<pc, max_chunks, max_retries, accept_ranges, cl_header, content_length,
                 chunk_count, chunk_size, loop_i, temp_dir, temp_files, lock,
                 output, log, written, server>>

\* the blocking thread performs the write that write_all handed over. Nothing
\* reads a staging file before the join, so when the write lands before it
\* makes no difference: it is taken to land at some point after the join.
BackgroundWrite ==
  /\ \E p \in DOMAIN pending :
       /\ pc \notin {"spawn", "join"}
       /\ files' = Put(files, p, pending[p])
       /\ pending' = [q \in DOMAIN pending \ {p} |-> pending[q]]
  /\ UNCHANGED <<pc, max_chunks, max_retries, accept_ranges, cl_header, content_length,
                 chunk_count, chunk_size, loop_i, tasks, temp_dir, temp_files, lock,
                 pb, output, log, written, hist, server>>

\* CanLock of a lock that excludes no one
CanLockAlways(who) == TRUE

\* Mutex::lock returns only when no one holds the mutex
CanLock(who) == lock = Free

\* temp_files_clone.lock().unwrap()
Lock(t) ==
  /\ t \in Spawned
  /\ tasks[t].pc = "lock"
  /\ CanLock(Task(t))
  /\ lock' = Task(t)
  /\ tasks' = [tasks EXCEPT ![t].pc = "set"]
  /\ UNCHANGED <<pc, max_chunks, max_retries, accept_ranges, cl_header, content_length,
                 chunk_count, chunk_size, loop_i, temp_dir, files, temp_files,
                 pb, output, log, pending, written, hist, server>>

\* the slot a task writes
SlotOf(t) == tasks[t].index

\* the slot is written and the task ends with the guard never dropped
SetSlotKeepsLock(t) ==
  /\ t \in Spawned
  /\ tasks[t].pc = "set"
  /\ temp_files' = [temp_files EXCEPT ![SlotOf(t)] = tasks[t].temp_path]
  /\ hist' = [hist EXCEPT ![SlotOf(t)].writers = Append(@, t)]
  /\ tasks' = [tasks EXCEPT ![t].pc = "done", ![t].bytes = <<>>]
  /\ UNCHANGED <<pc, max_chunks, max_retries, accept_ranges, cl_header, content_length,
                 chunk_count, chunk_size, loop_i, temp_dir, files, lock,
                 pb, output, log, pending, written, server>>

\* (*temp_files_lock)[index] = Some(temp_path); break: the guard is dropped
\* and the task ends
SetSlot(t) ==
  /\ t \in Spawned
  /\ tasks[t].pc = "set"
  /\ temp_files' = [temp_files EXCEPT ![SlotOf(t)] = tasks[t].temp_path]
  /\ hist' = [hist EXCEPT ![SlotOf(t)].writers = Append(@, t)]
  /\ lock' = Free
  /\ tasks' = [tasks EXCEPT ![t].pc = "done", ![t].bytes = <<>>]
  /\ UNCHANGED <<pc, max_chunks, max_retries, accept_ranges, cl_header, content_length,
                 chunk_count, chunk_size, loop_i, temp_dir, files,
                 pb, output, log, pending, written, server>>

\* ---- main after the spawning loop ----

\* JoinReady of a join that returns at the first task that has completed
JoinReadyAny == tasks # <<>> => \E t \in DOMAIN tasks : tasks[t].pc = "done"

\* join_all(tasks).await completes when every JoinHandle has completed
JoinReady == \A t \in DOMAIN tasks : tasks[t].pc = "done"

Join ==
  /\ pc = "join"
  /\ JoinReady
  /\ pc' = "lock"
  /\ UNCHANGED <<max_chunks, max_retries, accept_ranges, cl_header, content_length,
                 chunk_count, chunk_size, loop_i, tasks, temp_dir, files, temp_files,
                 lock, pb, output, log, pending, written, hist, server>>

\* let temp_files_final = temp_files.lock().unwrap()
LockMain ==
  /\ pc = "lock"
  /\ CanLock(Main)
  /\ lock' = Main
  /\ pc' = "createout"
  /\ UNCHANGED <<max_chunks, max_retries, accept_ranges, cl_header, content_length,
                 chunk_count, chunk_size, loop_i, tasks, temp_dir, files, temp_files,
                 pb, output, log, pending, written, hist, server>>

\* File::create(&file_path) fails
CreateOutErr ==
  /\ pc = "createout"
  /\ Unwind("Create file failed")
  /\ UNCHANGED <<max_chunks, max_retries, accept_ranges, cl_header, content_length,
                 chunk_count, chunk_size, loop_i, tasks, temp_files, pb, output,
                 written, hist, server>>

\* File::create(&file_path): the output file exists and is empty
CreateOut ==
  /\ pc = "createout"
  /\ output' = <<>>
  /\ loop_i' = 0
  /\ pc' = "assemble"
  /\ UNCHANGED <<max_chunks, max_retries, accept_ranges, cl_header, content_length,
                 chunk_count, chunk_size, tasks, temp_dir, files, temp_files,
                 lock, pb, log, pending, written, hist, server>>

\* NextIndex of a loop that leaves out every other slot
NextIndexSkip(i) == i + 2

\* the index the reassembly loop visits next
NextIndex(i) == i + 1

\* one iteration over a slot that holds a path: the staging file is read to its
\* end and appended to the output
AssembleSome ==
  /\ pc = "assemble"
  /\ loop_i < chunk_count
  /\ temp_files[loop_i] # None
  /\ temp_files[loop_i] \in DOMAIN files
  /\ output' = output \o files[temp_files[loop_i]]
  /\ written' = Append(written, [index |-> loop_i, bytes |-> files[temp_files[loop_i]]])
  /\ loop_i' = NextIndex(loop_i)
  /\ UNCHANGED <<pc, max_chunks, max_retries, accept_ranges, cl_header, content_length,
                 chunk_count, chunk_size, tasks, temp_dir, files, temp_files,
                 lock, pb, log, pending, hist, server>>

\* one iteration over a slot that holds None
AssembleNone ==
  /\ pc = "assemble"
  /\ loop_i < chunk_count
  /\ temp_files[loop_i] = None
  /\ log' = log \cup {<<"Skipping chunk", loop_i>>}
  /\ loop_i' = NextIndex(loop_i)
  /\ UNCHANGED <<pc, max_chunks, max_retries, accept_ranges, cl_header, content_length,
                 chunk_count, chunk_size, tasks, temp_dir, files, temp_files,
                 lock, pb, output, pending, written, hist, server>>

\* File::open, read_to_end or write_all fails in an iteration
AssembleErr ==
  /\ pc = "assemble"
  /\ loop_i < chunk_count
  /\ temp_files[loop_i] # None
  /\ \E msg \in {"Open temp file failed", "Read temp file failed", "Write file failed"} :
       /\ msg # "Open temp file failed" => temp_files[loop_i] \in DOMAIN files
       /\ Unwind(msg)
  /\ UNCHANGED <<max_chunks, max_retries, accept_ranges, cl_header, content_length,
                 chunk_count, chunk_size, loop_i, tasks, temp_files, pb, output,
                 written, hist, server>>

\* the loop over temp_files_final is left before its last slot
AssembleDoneEarly ==
  /\ pc = "assemble"
  /\ pc' = "close"
  /\ UNCHANGED <<max_chunks, max_retries, accept_ranges, cl_header, content_length,
                 chunk_count, chunk_size, loop_i, tasks, temp_dir, files, temp_files,
                 lock, pb, output, log, pending, written, hist, server>>

\* the loop over temp_files_final is over
AssembleDone ==
  /\ pc = "assemble"
  /\ loop_i >= chunk_count
  /\ pc' = "close"
  /\ UNCHANGED <<max_chunks, max_retries, accept_ranges, cl_header, content_length,
                 chunk_count, chunk_size, loop_i, tasks, temp_dir, files, temp_files,
                 lock, pb, output, log, pending, written, hist, server>>

\* temp_dir.close() removes the directory and what it holds
Close ==
  /\ pc = "close"
  /\ temp_dir' = "removed"
  /\ files' = <<>>
  /\ pending' = <<>>
  /\ pc' = "report"
  /\ UNCHANGED <<max_chunks, max_retries, accept_ranges, cl_header, content_length,
                 chunk_count, chunk_size, loop_i, tasks, temp_files,
                 lock, pb, output, log, written, hist, server>>

\* temp_dir.close() fails: the TempDir is consumed, the directory stays
CloseErr ==
  /\ pc = "close"
  /\ pc' = "panicked"
  /\ log' = log \cup {<<"panic", "Remove temp dir failed">>}
  /\ lock' = Free
  /\ UNCHANGED <<max_chunks, max_retries, accept_ranges, cl_header, content_length,
                 chunk_count, chunk_size, loop_i, tasks, temp_dir, files, temp_files,
                 pb, output, pending, written, hist, server>>

\* the two println! at the end of the branch; the guard is dropped
Report ==
  /\ pc = "report"
  /\ log' = log \cup {<<"Download complete!">>, <<"File saved at">>}
  /\ lock' = Free
  /\ pc' = "done"
  /\ UNCHANGED <<max_chunks, max_retries, accept_ranges, cl_header, content_length,
                 chunk_count, chunk_size, loop_i, tasks, temp_dir, files, temp_files,
                 pb, output, pending, written, hist, server>>

\* the indices a task can have
TaskIds == 0..(MaxChunks - 1)

Next ==
  \/ HeadUnreachable \/ HeadStatusFailed \/ HeadOk \/ RangesUnsupported
  \/ LengthInvalid \/ ReadLength \/ DivideByZero \/ Divide \/ SetupFailed \/ Setup
  \/ Spawn
  \/ \E t \in TaskIds : Start(t)
  \/ \E t \in TaskIds : FailBeforeWrite(t)
  \/ \E t \in TaskIds : WriteErr(t)
  \/ \E t \in TaskIds : DownloadOk(t)
  \/ \E t \in TaskIds : Lock(t)
  \/ \E t \in TaskIds : SetSlot(t)
  \/ BackgroundWrite
  \/ Join \/ LockMain \/ CreateOutErr \/ CreateOut
  \/ AssembleSome \/ AssembleNone \/ AssembleErr \/ AssembleDone
  \/ Close \/ CloseErr \/ Report

Spec == Init /\ [][Next]_vars

\* a step of main
MainStep ==
  \/ HeadUnreachable \/ HeadStatusFailed \/ HeadOk \/ RangesUnsupported
  \/ LengthInvalid \/ ReadLength \/ DivideByZero \/ Divide \/ SetupFailed \/ Setup
  \/ Spawn
  \/ Join \/ LockMain \/ CreateOutErr \/ CreateOut
  \/ AssembleSome \/ AssembleNone \/ AssembleErr \/ AssembleDone
  \/ Close \/ CloseErr \/ Report

\* a step of the task of chunk t; a call of download_chunk that was made
\* returns, with Ok or with Err
TaskStep(t) ==
  \/ Start(t) \/ FailBeforeWrite(t) \/ WriteErr(t) \/ DownloadOk(t)
  \/ Lock(t) \/ SetSlot(t)

\* the runtime does not leave main or a spawned task that can step unscheduled
\* for ever, and every request that was sent returns
FairSpec ==
  /\ Spec
  /\ WF_vars(MainStep)
  /\ \A t \in TaskIds : WF_vars(TaskStep(t))

\* ---- the chunk plan ----

\* every chunk of the plan has been handed to a task
PlanComplete == chunk_count > 0 /\ DOMAIN tasks = 0..(chunk_count - 1)

\* the bytes of the range of chunk i
RangeOf(i) == tasks[i].start .. tasks[i].end

\* the plan main computes for these inputs, as a function of the chunk index
PlanOf(maxc, length) ==
  [i \in 0..(ChunkCount(maxc, length) - 1) |->
     <<ChunkStart(i, length \div ChunkCount(maxc, length)),
       ChunkEnd(i, ChunkCount(maxc, length), length \div ChunkCount(maxc, length),
                length)>>]

\* C1: for totalSize > 0 and maxChunks >= 1 the planned ranges are
\* min(maxChunks, totalSize) in number, non-empty, pairwise disjoint and
\* contiguous, start at byte 0, end at byte totalSize - 1, and their union is
\* exactly [0, totalSize - 1].
C1_PlanCovers ==
  (PlanComplete /\ content_length > 0 /\ max_chunks >= 1) =>
    /\ Cardinality(DOMAIN tasks) = Min(max_chunks, content_length)
    /\ tasks[0].start = 0
    /\ tasks[chunk_count - 1].end = content_length - 1
    /\ \A i \in DOMAIN tasks : tasks[i].start <= tasks[i].end
    /\ \A i \in DOMAIN tasks :
         i + 1 \in DOMAIN tasks => tasks[i].end + 1 = tasks[i + 1].start
    /\ \A i, j \in DOMAIN tasks : i # j => RangeOf(i) \cap RangeOf(j) = {}
    /\ UNION {RangeOf(i) : i \in DOMAIN tasks} = 0..(content_length - 1)

\* a plan of several chunks with a remainder is complete
C1_Witness ==
  /\ PlanComplete
  /\ chunk_count >= 2
  /\ content_length % chunk_count # 0

\* C2: with N = min(maxChunks, totalSize) and chunkSize = totalSize / N, every
\* chunk before the last covers [i*chunkSize, (i+1)*chunkSize - 1] and the last
\* covers [(N-1)*chunkSize, totalSize - 1], chunkSize + totalSize mod N bytes;
\* for totalSize = 1000 and maxChunks = 3 the plan is [0,332] [333,665] [666,999].
C2_RemainderInLast ==
  /\ PlanComplete =>
       LET N == Min(max_chunks, content_length)
           size == content_length \div N
       IN /\ chunk_count = N
          /\ \A i \in DOMAIN tasks :
               /\ tasks[i].start = i * size
               /\ i < N - 1 =>
                    /\ tasks[i].end = (i + 1) * size - 1
                    /\ Cardinality(RangeOf(i)) = size
               /\ i = N - 1 =>
                    /\ tasks[i].end = content_length - 1
                    /\ Cardinality(RangeOf(i)) = size + (content_length % N)
  /\ PlanOf(3, 1000) = [i \in 0..2 |-> <<<<0, 332>>, <<333, 665>>, <<666, 999>>>>[i + 1]]

\* a plan whose last chunk is longer than the others is complete
C2_Witness ==
  /\ PlanComplete
  /\ chunk_count >= 2
  /\ tasks[chunk_count - 1].end - tasks[chunk_count - 1].start
       > tasks[0].end - tasks[0].start

\* ---- the join ----

\* main is past join_all
AfterJoin == pc \in {"lock", "createout", "assemble", "close", "report", "done"}

\* the task of chunk t has ended
Terminal(t) == t \in DOMAIN tasks /\ tasks[t].pc = "done"

\* the result of chunk t
Fetched(t) == temp_files[t] # None
Failed(t) == temp_files[t] = None

\* C3: reassembly (the output file created, a staging file read) does not begin
\* until every spawned chunk task has reached a terminal state.
C3_FullBarrier ==
  (AfterJoin \/ output # NoFile \/ written # <<>>) =>
    \A t \in 0..(chunk_count - 1) : Terminal(t)

\* reassembly is under way, one chunk failed without any success and a sibling
\* was fetched after a failed attempt of its own
C3_Witness ==
  /\ pc = "assemble"
  /\ \E t, u \in DOMAIN tasks :
       /\ Failed(t) /\ hist[t].oks = 0
       /\ Fetched(u) /\ hist[u].lastTry /\ max_retries >= 2

\* ---- the retry loop ----

\* the calls of download_chunk task t has made: one per failed attempt, and the
\* one in flight
Calls(t) == tasks[t].retries + (IF tasks[t].pc = "send" THEN 1 ELSE 0)

\* C4: each chunk task calls download_chunk at most maxRetries times and never
\* again after an Ok; when it has ended its slot holds its staging path iff one
\* of its attempts succeeded, and otherwise the slot is empty after exactly
\* maxRetries failed attempts.
C4_Retry ==
  \A t \in DOMAIN tasks :
    /\ Calls(t) <= max_retries
    /\ hist[t].late = 0
    /\ hist[t].oks <= 1
    /\ hist[t].oks = 1 => tasks[t].pc \in {"lock", "set", "done"}
    /\ Fetched(t) => hist[t].oks = 1
    /\ Terminal(t) =>
         /\ Fetched(t) <=> hist[t].oks = 1
         /\ Fetched(t) => temp_files[t] = tasks[t].temp_path
         /\ Failed(t) => tasks[t].retries = max_retries

\* a chunk whose first maxRetries - 1 attempts failed and whose last succeeded
C4_Witness ==
  \E t \in DOMAIN tasks :
    /\ max_retries >= 2
    /\ Terminal(t)
    /\ hist[t].lastTry
    /\ Fetched(t)

\* ---- isolation of failures ----

\* the staging file of task t, NoFile when there is none
FileOf(t) == IF tasks[t].temp_path \in DOMAIN files THEN files[tasks[t].temp_path] ELSE NoFile

\* a step of task u is possible
CanStep(u) ==
  ENABLED (Start(u) \/ FailBeforeWrite(u) \/ WriteErr(u) \/ DownloadOk(u) \/ Lock(u)
           \/ SetSlot(u))

\* task t gives up in this step
GivesUp(t) ==
  /\ t \in DOMAIN tasks
  /\ tasks[t].pc # "done"
  /\ tasks'[t].pc = "done"
  /\ hist[t].oks = 0

\* C5: a chunk task that exhausts its retries does not abort, cancel or alter a
\* sibling: the step in which it gives up leaves every sibling's task, slot,
\* history and staging file as they were; a sibling that has not ended can still
\* take its next step (or waits for the lock that another task holds) whatever
\* has failed; and a sibling that has ended was fetched iff an attempt of its own
\* succeeded.
C5_Isolation ==
  /\ [](\A t, u \in DOMAIN tasks :
          (t # u /\ Terminal(t) /\ Failed(t)) =>
             /\ ~Terminal(u) =>
                  \/ CanStep(u)
                  \/ tasks[u].pc = "lock" /\ lock.by = "task" /\ lock.id # u
             /\ Terminal(u) => (Fetched(u) <=> hist[u].oks = 1))
  /\ [][\A t \in DOMAIN tasks : GivesUp(t) =>
          \A u \in DOMAIN tasks \ {t} :
            /\ tasks'[u] = tasks[u]
            /\ temp_files'[u] = temp_files[u]
            /\ hist'[u] = hist[u]
            /\ FileOf(u)' = FileOf(u)]_vars

\* a chunk has failed for good, a sibling is still in its retry loop after a
\* failed attempt
C5_Witness ==
  \E t, u \in DOMAIN tasks :
    /\ t # u
    /\ Terminal(t) /\ Failed(t) /\ max_retries >= 1
    /\ tasks[u].pc = "send" /\ tasks[u].retries >= 1

\* ---- reassembly ----

RECURSIVE Flatten(_)
\* the bytes of a sequence of written chunks, one after the other
Flatten(w) == IF w = <<>> THEN <<>> ELSE w[1].bytes \o Flatten(Tail(w))

\* the slots the reassembly loop has visited
Visited == IF pc = "assemble" THEN 0..(Min(loop_i, chunk_count) - 1)
           ELSE 0..(chunk_count - 1)

\* the chunk indices reported as skipped
Skipped == {i \in 0..(chunk_count - 1) : <<"Skipping chunk", i>> \in log}

\* C6: in whatever order the tasks ended, the output file is the concatenation,
\* in strictly increasing chunk index, of the bytes read from the staging files
\* of exactly the Fetched chunks; every Failed chunk is skipped without ending
\* the loop, and the indices reported as skipped are exactly the Failed ones.
C6_OrderedReassembly ==
  pc \in {"assemble", "close", "report", "done"} =>
    /\ output = Flatten(written)
    /\ \A k \in 1..(Len(written) - 1) : written[k].index < written[k + 1].index
    /\ {written[k].index : k \in 1..Len(written)} = {i \in Visited : Fetched(i)}
    /\ Skipped = {i \in Visited : Failed(i)}
    /\ \A i \in Visited : Failed(i) <=> hist[i].oks = 0

\* three chunks, the middle one failed: chunks 0 and 2 written in that order
\* and chunk 1 reported as skipped
C6_Witness ==
  /\ pc = "done"
  /\ chunk_count = 3
  /\ [k \in 1..Len(written) |-> written[k].index] = <<0, 2>>
  /\ Skipped = {1}
  /\ output # <<>>

\* every chunk was fetched and every Ok attempt returned exactly its range
AllFetchedExact ==
  /\ PlanComplete
  /\ server = "partial"
  /\ \A t \in DOMAIN tasks : hist[t].oks = 1

\* C7: if every chunk fetch succeeds, each returning exactly the bytes of its
\* range, then after reassembly the output file has totalSize bytes, equals the
\* original resource byte for byte, and no chunk is reported missing.
C7_AllFetchedOutputComplete ==
  (pc = "done" /\ AllFetchedExact) =>
    /\ Len(output) = content_length
    /\ output = Original(content_length)
    /\ Skipped = {}

\* ---- the report to the user ----

\* C8: a run that ends with a Failed chunk names the failed chunk indices and
\* does not print the completion message of a run that fetched every chunk.
C8_PartialSuccessReported ==
  (pc = "done" /\ \E i \in 0..(chunk_count - 1) : Failed(i)) =>
    /\ Skipped = {i \in 0..(chunk_count - 1) : Failed(i)}
    /\ <<"Download complete!">> \notin log

\* ---- the empty resource ----

\* the probe reported ranges and a length of 0 (header 0 or absent)
ProbedEmpty ==
  /\ accept_ranges = "bytes"
  /\ \/ cl_header.kind = "absent"
     \/ cl_header.kind = "number" /\ cl_header.value = 0

\* C9: when the probed totalSize is 0 and the server supports ranges, the plan
\* is empty, no task is spawned, there is no fault and the run reaches its
\* normal end.
C9_EmptyPlanNoFault ==
  ProbedEmpty =>
    /\ tasks = <<>>
    /\ pc # "panicked"

\* ---- the results array ----

\* C10: the results array has one slot per chunk index; each slot is written at
\* most once, only by the task of that index and with that task's staging path;
\* a task writes only while it holds the lock, and no two tasks are in their
\* write at the same time.
C10_SlotsExclusive ==
  /\ temp_dir # "none" => DOMAIN temp_files = 0..(chunk_count - 1)
  /\ \A i \in DOMAIN tasks :
       /\ Len(hist[i].writers) <= 1
       /\ \A k \in 1..Len(hist[i].writers) : hist[i].writers[k] = i
       /\ temp_files[i] \in {None, TempPath(i)}
       /\ tasks[i].pc = "set" => lock = Task(i)
  /\ Cardinality({t \in DOMAIN tasks : tasks[t].pc = "set"}) <= 1

\* a task is in its write, a second task waits for the lock and a third has
\* written its slot
C10_Witness ==
  \E t, u, v \in DOMAIN tasks :
    /\ tasks[t].pc = "set" /\ lock = Task(t)
    /\ tasks[u].pc = "lock"
    /\ hist[v].writers = <<v>>

\* ---- the progress counter ----

\* C11: in every reachable state the progress counter is at most totalSize;
\* each chunk adds to it at most once, only with its successful attempt, and a
\* failed attempt adds nothing.
C11_ProgressBounded ==
  /\ pb <= content_length
  /\ \A t \in DOMAIN tasks :
       /\ hist[t].incs <= 1
       /\ hist[t].incs = hist[t].oks

\* C12: in a run in which every chunk was fetched, the progress counter at
\* completion equals totalSize exactly.
C12_ProgressComplete ==
  (pc = "done" /\ PlanComplete /\ \A i \in 0..(chunk_count - 1) : Fetched(i)) =>
    pb = content_length

\* ---- the probe ----

\* the probe did not yield a range-capable resource: the request could not be
\* completed, the status was not a success, or Accept-Ranges was absent or not
\* exactly "bytes"
NotRangeCapable ==
  /\ pc # "head"
  /\ \/ <<"panic", "Send head request failed">> \in log
     \/ <<"Failed to download: Server returned status code">> \in log
     \/ accept_ranges # "bytes"

\* C13: whenever the probe does not yield a range-capable resource, the run
\* stops there: no fetch task is spawned, no range GET is sent, no staging
\* directory and no output file is created.
C13_NoProbeNoDownload ==
  NotRangeCapable =>
    /\ pc \in {"ranges", "returned", "panicked"}
    /\ tasks = <<>>
    /\ hist = <<>>
    /\ temp_dir = "none"
    /\ files = <<>> /\ pending = <<>>
    /\ output = NoFile
    /\ pb = 0

\* the server answered with an Accept-Ranges value other than "bytes" and the
\* run returned with the message of the else branch
C13_Witness ==
  /\ pc = "returned"
  /\ accept_ranges = "none"
  /\ <<"Server does not support range requests">> \in log

\* ---- the staging directory ----

\* the run has ended: normally, by an early return or by a panic of main
Ended == pc \in {"done", "returned", "panicked"}

Reassembled == pc \in {"close", "report", "done"}

\* the offset in the output file of the k-th staging file that was appended
OffsetOf(k) == Len(Flatten(SubSeq(written, 1, k - 1)))

\* the lowest index of a chunk that is missing after the join
FirstMissing == CHOOSE m \in 0..(chunk_count - 1) :
                  Failed(m) /\ \A j \in 0..(m - 1) : Fetched(j)

\* C15: whenever a chunk is missing after the join, the output file is not the
\* original: it is strictly shorter than totalSize and every byte of a chunk
\* after the first missing one sits at a lower offset than in the original.
C15_MissingChunkShortens ==
  (Reassembled /\ \E i \in 0..(chunk_count - 1) : Failed(i)) =>
    /\ output # Original(content_length)
    /\ Len(output) < content_length
    /\ \A k \in 1..Len(written) :
         (written[k].index > FirstMissing /\ written[k].bytes # <<>>) =>
           OffsetOf(k) < tasks[written[k].index].start

\* the chunk indices whose staging file reassembly has read
ReadBack == {written[k].index : k \in 1..Len(written)}

\* C16: the staging directory is created before the first fetch attempt of any
\* chunk starts; it is not removed while a chunk task may still write a staging
\* file, nor while reassembly has not finished reading the staging file of
\* every Fetched chunk.
C16_StagingOutlivesUse ==
  /\ tasks # <<>> => temp_dir # "none"
  /\ (\E t \in DOMAIN tasks : ~Terminal(t)) => temp_dir = "exists"
  /\ pc \in {"spawn", "join", "lock", "createout", "assemble", "close"} =>
       temp_dir = "exists"
  /\ (temp_dir = "removed" /\ pc # "panicked") =>
       ReadBack = {i \in 0..(chunk_count - 1) : Fetched(i)}

\* the directory was removed after reassembly had read the staging files of
\* the two Fetched chunks of a run in which a third chunk failed
C16_Witness ==
  /\ pc = "report"
  /\ temp_dir = "removed"
  /\ Cardinality(ReadBack) = 2
  /\ \E i \in DOMAIN tasks : Failed(i)

\* ---- termination ----

\* C17: if every download attempt returns and the tasks are scheduled fairly,
\* then from the spawning of the tasks on, whatever attempts fail and also
\* with max_retries = 0, the run comes to its end with every chunk task ended
\* after at most max_retries attempts, hence with the join completed and
\* reassembly entered, and with the teardown of the staging directory done
\* (or failed with its panic).
C17_Terminates ==
  (pc = "spawn") ~>
    (/\ Ended
     /\ PlanComplete
     /\ \A t \in DOMAIN tasks : Terminal(t) /\ tasks[t].retries <= max_retries
     /\ \/ temp_dir = "removed"
        \/ <<"panic", "Remove temp dir failed">> \in log)

\* with max_retries = 0 every chunk ended Failed without an attempt and the
\* run went through reassembly and teardown to its end
C17_Witness ==
  /\ max_retries = 0
  /\ chunk_count = 3
  /\ pc = "done"
  /\ temp_dir = "removed"
  /\ \A i \in DOMAIN tasks : Failed(i) /\ hist[i].oks = 0

\* ---- the staging files ----

\* C18: whenever a slot holds a staging path, the file at that path holds
\* exactly the complete bytes that the chunk's successful attempt returned;
\* bytes of an earlier failed attempt do not survive in it.
C18_StagedComplete ==
  \A i \in DOMAIN tasks :
    (Fetched(i) /\ temp_dir = "exists") => FileOf(i) = Received(i)

\* the staging file at path p is created or its content changes in this step
FileWritten(p) == p \in DOMAIN files' /\ (p \notin DOMAIN files \/ files'[p] # files[p])

\* the step is one of task i alone, or it lands the write that task i handed over
StepOf(i, p) ==
  /\ \/ tasks'[i] # tasks[i]
     \/ p \in DOMAIN pending /\ p \notin DOMAIN pending'
  /\ \A j \in DOMAIN tasks \ {i} : tasks'[j] = tasks[j]

\* C19: chunk i stages to the path "part<i>" of the staging directory, the
\* paths of distinct indices are distinct, and a staging file is written only
\* by the task that owns its index.
C19_PathsDisjoint ==
  /\ [](/\ \A i \in DOMAIN tasks : tasks[i].temp_path = <<"part">> \o Dec(i)
        /\ \A i, j \in DOMAIN tasks : i # j => tasks[i].temp_path # tasks[j].temp_path
        /\ \A i, j \in 0..12 : i # j => TempPath(i) # TempPath(j)
        /\ DOMAIN files \subseteq {tasks[i].temp_path : i \in DOMAIN tasks})
  /\ [][\A p \in DOMAIN files' :
          FileWritten(p) =>
            \E i \in DOMAIN tasks : tasks[i].temp_path = p /\ StepOf(i, p)]_vars

\* three tasks have each written their own staging file
C19_Witness ==
  /\ Cardinality({p \in DOMAIN files : files[p] # <<>>}) = 3
  /\ \A i \in 0..2 : TempPath(i) \in DOMAIN files

\* ---- the division of the plan ----

\* C20: for every max_chunks (0 included) and every probed content length the
\* division content_length / chunk_count is never executed with a divisor of 0.
C20_DivisorNonZero ==
  pc = "divide" => chunk_count # 0
====
